---------------------------- MODULE Spec2Model ----------------------------
(***************************************************************************)
(* A model of the InnovateAi Flask application:                            *)
(*   - services/browser_service.py : VirtualBrowser (real driver),         *)
(*     MockBrowser (simulated driver), process_autonomous_navigation       *)
(*   - services/openai_service.py  : the four query processors             *)
(*   - app.py                      : the /api/speech route                 *)
(*   - services/speech_service.py  : the text-to-speech cascade            *)
(*   - services/tools_service.py   : the vector store id file, uploads,    *)
(*     the listing of files; models/agents.py: the agent catalog           *)
(* External services (the hosted model, speech-to-text, Playwright) are    *)
(* the environment: each call to one of them is a nondeterministic choice  *)
(* among the outcomes the call can have (a value, or an exception).        *)
(*                                                                         *)
(* Three specifications share the module:                                  *)
(*   Spec        one invocation of process_autonomous_navigation           *)
(*   SpecDriver  a client calling the methods of one VirtualBrowser        *)
(*   SpecSpeech  a client's GET /api/agents and POST /api/speech requests  *)
(*   SpecTts     one call of text_to_speech                                *)
(*   SpecRoutes  uploads and file listings served by one deployment, the   *)
(*               uploads possibly at the same time                         *)
(*   SpecFiles   the temporary files written by two requests served at     *)
(*               the same time                                             *)
(***************************************************************************)
EXTENDS Integers, Sequences, FiniteSets

VARIABLES
    \* ---- browser_service.py, module state and the VirtualBrowser object
    PLAYWRIGHT_AVAILABLE, \* the module flag set by the import at load time
    vb,                   \* the VirtualBrowser object's fields
    drv,                  \* the last VirtualBrowser method call and its outcome
    drvCalls,             \* number of method calls made by the driver's client
    \* ---- process_autonomous_navigation, one invocation
    pc,                   \* position in the function
    browserArg,           \* the `browser` argument: "none", "running", "stopped"
    browser,              \* the driver the local `browser` refers to
    created_browser,
    mock_running,         \* MockBrowser.is_running of the driver the loop made
    caller_running,       \* is_running of the driver the caller passed
    screenshot_path,      \* browser.screenshot_path of the driver in use
    response,             \* response.output of the latest model response
    item,                 \* index of the for-loop over response.output
    has_action,
    current_round,
    actions_summary,      \* the notes appended so far, counted per kind
    result,               \* the returned tuple (without `instructions`)
    calls,                \* calls made so far, counted per callee
    hist,                 \* history: what happened first, for the temporal claims
    \* ---- app.py process_speech and openai_service.py, one request
    spc,                  \* position in the request
    request,              \* what the request carries, and the deployment
    transcript,           \* the processor's local `transcript`
    processed,            \* how the query processor ended, and with what
    http,                 \* the response of the route
    scalls,               \* external calls made for the request, per kind
    shist,                \* history of the request
    \* ---- speech_service.py text_to_speech, one call
    tpc,                  \* position in the function
    tin,                  \* the text argument and the deployment's configuration
    ttext,                \* the local `text`
    tried,                \* the provider calls made, in order, with their outcome
    tret,                 \* the returned path and what its audio says
    error_file,           \* uploads/audio/error_message.mp3 exists
    \* ---- tools_service.py and the routes /api/upload-file, /api/files,
    \*      /api/agents of one deployment
    id_file,              \* the id in vector_store_id.json, NoId without one
    nstores,              \* vector stores created at the hosted service
    batch,                \* per uploaded file: the store of its batch, its status
    up,                   \* per upload request: position and locals
    id_writes,            \* the ids save_vector_store_id wrote, in order
    overlapped,           \* an upload began while another was running
    listing,              \* the last get_available_files call
    agents_http,          \* the response to GET /api/agents
    \* ---- the temporary files of two requests served at the same time
    clock,                \* int(time.time()), in seconds
    next_uuid,            \* uuid.uuid4() values drawn so far
    freq,                 \* per request: what it is and the files it wrote
    written,              \* the files on disk, each with the requests that wrote it
    \* ---- browser_service.py, a MockBrowser object and its client
    mb                    \* the object's fields and the last method call on it

\* what the navigation function leaves alone, and what the driver's client does
navVars == <<pc, browserArg, browser, created_browser, mock_running,
             caller_running, screenshot_path, response, item, has_action,
             current_round, actions_summary, result, calls, hist>>
speechVars == <<spc, request, transcript, processed, http, scalls, shist>>
ttsVars == <<tpc, tin, ttext, tried, tret, error_file>>
routeVars == <<id_file, nstores, batch, up, id_writes, overlapped, listing, agents_http>>
fileVars == <<clock, next_uuid, freq, written>>
notNav == <<drv, drvCalls, speechVars, ttsVars, routeVars, fileVars, mb>>
notDriver == <<navVars, speechVars, ttsVars, routeVars, fileVars, mb>>
notSpeech == <<PLAYWRIGHT_AVAILABLE, vb, drv, drvCalls, navVars, ttsVars, routeVars,
               fileVars, mb>>
notTts == <<PLAYWRIGHT_AVAILABLE, vb, drv, drvCalls, navVars, speechVars, routeVars,
            fileVars, mb>>
notRoutes == <<PLAYWRIGHT_AVAILABLE, vb, drv, drvCalls, navVars, speechVars, ttsVars,
               fileVars, mb>>
notFiles == <<PLAYWRIGHT_AVAILABLE, vb, drv, drvCalls, navVars, speechVars, ttsVars,
              routeVars, mb>>
notMock == <<PLAYWRIGHT_AVAILABLE, vb, drv, drvCalls, navVars, speechVars, ttsVars,
             routeVars, fileVars>>

(***************************************************************************)
(* Bounds of the model                                                     *)
(***************************************************************************)
\* longest response.output the environment returns
MaxItems == 2
\* number of method calls the client of SpecDriver makes
MaxDriverCalls == 3
\* the "Paso n" notes of a summary are counted up to this number
MaxStepNotes == 1
\* number of upload requests the deployment serves
MaxUploads == 2
\* seconds the clock advances while the two requests of SpecFiles run
MaxClock == 2
\* temporary files one request of SpecFiles writes
MaxFiles == 2
\* number of method calls the client of SpecMock makes
MaxMockCalls == 3

(***************************************************************************)
(* VirtualBrowser                                                          *)
(***************************************************************************)
\* the handles start() opens, in the order it opens them
Resources == <<"playwright", "browser", "context", "page">>
ResourceSet == {Resources[i] : i \in 1..Len(Resources)}

\* start() makes six Playwright calls; the first four each open one handle
\* (sync_playwright().start, chromium.launch, new_context, new_page), the
\* last two (set_viewport_size, goto) open none.
StartSteps == 6
OpenedBefore(step) ==
    {Resources[i] : i \in 1..(IF step - 1 < Len(Resources) THEN step - 1 ELSE Len(Resources))}

\* the action types the model may request; "other" is any type the driver
\* does not know, "navigate" is the sixth BrowserAction variant
ActionTypes == {"click", "type", "press", "scroll", "wait", "navigate", "other"}
\* the branches of VirtualBrowser.execute_action
VBKnownActions == {"click", "type", "press", "scroll", "wait"}

\* VirtualBrowser.__init__
VBNew == [is_running |-> FALSE, attrs |-> {}, live |-> {}]

\* VirtualBrowser.cleanup: closes page, context, browser, playwright when the
\* attribute is set; the attributes themselves are not reset.  The four close
\* calls are taken to succeed (the except clause around them only logs).
VBCleanup(b) == [b EXCEPT !.is_running = FALSE, !.live = {}]

\* The outcome of a call is the value it returns, or "raise" when an
\* exception leaves it.  Python's True, False and None are "True", "False",
\* "None"; "png" is the base64 text of a captured image.

\* VirtualBrowser.start.  failAt = 0: every Playwright call succeeds;
\* failAt = k: the k-th call raises.  Gives <<the object after, the outcome>>.
VBStartNoCleanup(b, available, failAt) ==
    IF ~available THEN <<b, "False">>
    ELSE IF failAt = 0
         THEN <<[is_running |-> TRUE, attrs |-> ResourceSet, live |-> ResourceSet], "True">>
         ELSE <<[b EXCEPT !.attrs = b.attrs \cup OpenedBefore(failAt),
                          !.live = OpenedBefore(failAt)], "False">>

VBStart(b, available, failAt) ==
    IF ~available THEN <<b, "False">>
    ELSE IF failAt = 0
         THEN <<[is_running |-> TRUE, attrs |-> ResourceSet, live |-> ResourceSet], "True">>
         ELSE LET opened == [b EXCEPT !.attrs = b.attrs \cup OpenedBefore(failAt),
                                      !.live = OpenedBefore(failAt)]
              IN  <<VBCleanup(opened), "False">>

\* VirtualBrowser.take_screenshot.  capture: "ok" when page.screenshot and
\* the read of the file succeed, "raise" when one of them raises.
VBTakeScreenshot(b, capture) ==
    IF ~b.is_running \/ "page" \notin b.attrs THEN "None"
    ELSE IF capture = "ok" THEN "png" ELSE "None"

\* execute_action without its except clause: the primitive's exception escapes
VBExecuteActionNoExcept(b, type, prim) ==
    IF ~b.is_running \/ "page" \notin b.attrs THEN "False"
    ELSE IF type \in VBKnownActions
         THEN (IF prim = "ok" THEN "True" ELSE "raise")
         ELSE "False"

\* VirtualBrowser.execute_action.  prim: "ok" when the Playwright primitive
\* of the action and the wait after it succeed, "raise" when one raises.
VBExecuteAction(b, type, prim) ==
    IF ~b.is_running \/ "page" \notin b.attrs THEN "False"
    ELSE IF type \in VBKnownActions
         THEN (IF prim = "ok" THEN "True" ELSE "False")
         ELSE "False"

PrimOutcomes == {"ok", "raise"}

(***************************************************************************)
(* SpecDriver: a client makes up to MaxDriverCalls method calls on one     *)
(* VirtualBrowser, in any order, with every outcome of the Playwright      *)
(* calls underneath.  start is called on an object that holds no open      *)
(* handle (a new one, or one that was cleaned up), as the loop does.       *)
(***************************************************************************)
NoCall == [op |-> "none", ret |-> "none", type |-> "none", prim |-> "none",
           failAt |-> 0, before |-> VBNew]

DrvStart ==
    /\ drvCalls < MaxDriverCalls
    /\ vb.live = {}
    /\ \E failAt \in 0..StartSteps :
          LET r == VBStart(vb, PLAYWRIGHT_AVAILABLE, failAt)
          IN  /\ vb' = r[1]
              /\ drv' = [op |-> "start", ret |-> r[2], type |-> "none",
                         prim |-> IF failAt = 0 THEN "ok" ELSE "raise",
                         failAt |-> failAt, before |-> vb]
    /\ drvCalls' = drvCalls + 1
    /\ UNCHANGED <<PLAYWRIGHT_AVAILABLE, notDriver>>

DrvTakeScreenshot ==
    /\ drvCalls < MaxDriverCalls
    /\ \E capture \in PrimOutcomes :
          drv' = [op |-> "take_screenshot", ret |-> VBTakeScreenshot(vb, capture),
                  type |-> "none", prim |-> capture, failAt |-> 0, before |-> vb]
    /\ drvCalls' = drvCalls + 1
    /\ UNCHANGED <<PLAYWRIGHT_AVAILABLE, vb, notDriver>>

DrvExecuteAction ==
    /\ drvCalls < MaxDriverCalls
    /\ \E type \in ActionTypes, prim \in PrimOutcomes :
          drv' = [op |-> "execute_action", ret |-> VBExecuteAction(vb, type, prim),
                  type |-> type, prim |-> prim, failAt |-> 0, before |-> vb]
    /\ drvCalls' = drvCalls + 1
    /\ UNCHANGED <<PLAYWRIGHT_AVAILABLE, vb, notDriver>>

DrvCleanup ==
    /\ drvCalls < MaxDriverCalls
    /\ vb' = VBCleanup(vb)
    /\ drv' = [op |-> "cleanup", ret |-> "None", type |-> "none", prim |-> "ok",
               failAt |-> 0, before |-> vb]
    /\ drvCalls' = drvCalls + 1
    /\ UNCHANGED <<PLAYWRIGHT_AVAILABLE, notDriver>>

(***************************************************************************)
(* MockBrowser, as far as the navigation loop sees it                      *)
(***************************************************************************)
\* a start() that can fail, as VirtualBrowser's can
MockStartMayFail == "False"

\* MockBrowser.start
MockStart == "True"

\* MockBrowser.take_screenshot.  draw: "ok" when drawing and saving the image
\* succeed, "raise" when one of them raises (caught, None is returned).
MockTakeScreenshot(draw) == IF draw = "ok" THEN "png" ELSE "None"

\* MockBrowser.execute_action, its return value.  sim: "ok" when the
\* simulation of the action runs through, "raise" when it raises (caught).
MockExecuteActionResult(sim) == IF sim = "ok" THEN "True" ELSE "False"

(***************************************************************************)
(* MockBrowser: the URL it tracks                                          *)
(*                                                                         *)
(* A string is a sequence of tokens, each token a piece of text no test of *)
(* the code looks into: "http" and "s" are tokens, so that a string starts *)
(* with "http" when its first token is "http"; "." and " " are tokens; two *)
(* slashes in a row occur only in the token "://".                         *)
(***************************************************************************)
\* MockBrowser.width, the default of the constructor
MockWidth == 1024

\* "https://www.google.com", the URL of a new MockBrowser
GoogleHome == <<"http", "s", "://", "www", ".", "google", ".", "com">>

\* text.startswith("http")
StartsWithHttp(t) == Len(t) >= 1 /\ t[1] = "http"
\* `sub in t`
Contains(t, sub) ==
    \E i \in 0..(Len(t) - Len(sub)) : SubSeq(t, i + 1, i + Len(sub)) = sub
\* "." in text
HasDot(t) == Contains(t, <<".">>)
\* "google.com" in self.current_url
ContainsGoogle(t) == Contains(t, <<"google", ".", "com">>)
\* "example.com" in self.current_url
ContainsExample(t) == Contains(t, <<"example", ".", "com">>)
\* text.replace(' ', '+')
ReplaceSpaces(t) == [i \in 1..Len(t) |-> IF t[i] = " " THEN "+" ELSE t[i]]
\* f"https://www.google.com/search?q={text.replace(' ', '+')}"
SearchUrl(text) == GoogleHome \o <<"/", "search?q=">> \o ReplaceSpaces(text)
\* `text if text.startswith("http") else f"https://{text}"`
TypedUrl(text) == IF StartsWithHttp(text) THEN text ELSE <<"http", "s", "://">> \o text
\* key.lower() and clicked_item.lower(), on the keys and menu items of the model
Lower(k) ==
    CASE k \in {"Enter", "ENTER", "enter"} -> "enter"
      [] k = "Tab" -> "tab"
      [] k = "Home" -> "home"
      [] k = "About" -> "about"
      [] k = "Products" -> "products"
      [] k = "Services" -> "services"
      [] k = "Contact" -> "contact"
      [] OTHER -> k
menu_items == <<"Home", "About", "Products", "Services", "Contact">>
\* the index of the first token tok of t, Len(t) + 1 without one
IndexOf(t, tok) ==
    IF \E i \in 1..Len(t) : t[i] = tok
    THEN CHOOSE i \in 1..Len(t) : t[i] = tok /\ \A j \in 1..(i - 1) : t[j] # tok
    ELSE Len(t) + 1
\* `self.current_url.split('//')[1].split('/')[0] if '//' in self.current_url
\*  else "example.com"`
Domain(url) ==
    IF Contains(url, <<"://">>)
    THEN LET rest == SubSeq(url, IndexOf(url, "://") + 1, Len(url))
         IN  SubSeq(rest, 1, IndexOf(rest, "/") - 1)
    ELSE <<"example", ".", "com">>

\* the actions the client sends: a dict with "type" and the keys of its kind.
\* url holds the value of the key "url" when the dict has it.
MockAction(type, x, y, text, key, url) ==
    [type |-> type, x |-> x, y |-> y, text |-> text, key |-> key, url |-> url]
\* The actions of the model.  Texts typed: a URL, a text that starts with
\* "http" and has no "//", a domain, a search term, the empty text.  Points
\* clicked: the back button, the Google search box, the Google Search button,
\* beside it, the menu item "About", above the menu, elsewhere.
MockActions ==
    {MockAction("navigate", 0, 0, <<>>, "", u) :
        u \in {<<>>, << <<"http", "s", "://", "tienda", ".", "org", "/", "a">> >>}}
    \cup {MockAction("click", p[1], p[2], <<>>, "", <<>>) :
            p \in { <<20, 30>>, <<512, 200>>, <<450, 300>>, <<600, 300>>,
                    <<200, 240>>, <<200, 190>>, <<600, 500>> }}
    \cup {MockAction("type", 0, 0, t, "", <<>>) :
            t \in { <<"http", "s", "://", "tienda", ".", "org">>, <<"http", "foo">>,
                    <<"example", ".", "com">>, <<"gatos", " ", "negros">>, <<>> }}
    \cup {MockAction("press", 0, 0, <<>>, k, <<>>) :
            k \in {"Enter", "enter", "ENTER", "Tab"}}
    \cup {MockAction("scroll", 0, 0, <<>>, "", <<>>)}

\* the object has no attribute last_click_y
NoClick == -1
\* MockBrowser.__init__, and no method called yet
MBNew == [current_url |-> GoogleHome, mock_actions |-> <<>>, last_click_y |-> NoClick,
          op |-> "none", ncalls |-> 0, before |-> <<>>, ret |-> <<>>, drawn |-> <<>>]

\* the `type` actions anywhere in the history
PrevTypeActionsAnywhere(actions) == SelectSeq(actions, LAMBDA a : a.type = "type")

\* `[a for a in self.mock_actions[-2:] if a.get("type") == "type"]`, for a
\* history of two actions or more
PrevTypeActions(actions) ==
    SelectSeq(SubSeq(actions, Len(actions) - 1, Len(actions)),
              LAMBDA a : a.type = "type")

\* the URL after a click at (x, y); actions is the history with the click
ClickUrl(cur, actions, x, y) ==
    IF y < 50 THEN cur
    ELSE IF ContainsGoogle(cur)
    THEN IF 150 <= y /\ y <= 260 /\ (MockWidth \div 2) - 200 <= x
               /\ x <= (MockWidth \div 2) + 200
         THEN cur
         ELSE IF /\ 290 <= y /\ y <= 320
                 /\ (MockWidth \div 2) - 100 <= x /\ x <= (MockWidth \div 2) - 20
                 /\ Len(actions) >= 2
                 /\ PrevTypeActions(actions) # <<>>
              THEN SearchUrl(PrevTypeActions(actions)[1].text)
              ELSE cur
    ELSE IF ContainsExample(cur) THEN cur
    ELSE IF /\ 180 <= y /\ y <= 400 /\ 100 <= x /\ x <= 300
            /\ 0 <= (y - 200) \div 40 /\ (y - 200) \div 40 < 5
         THEN <<"http", "s", "://">> \o Domain(cur)
                 \o <<"/", Lower(menu_items[((y - 200) \div 40) + 1])>>
         ELSE cur

\* the URL after press(Enter); actions is the history with the press
EnterUrl(cur, actions) ==
    IF Len(actions) >= 2 /\ PrevTypeActions(actions) # <<>>
    THEN LET text == PrevTypeActions(actions)[1].text
         IN  IF StartsWithHttp(text) \/ HasDot(text) THEN TypedUrl(text)
             ELSE IF ContainsGoogle(cur) THEN SearchUrl(text)
             ELSE cur
    ELSE cur

\* MockBrowser.execute_action: the fields after the call (it returns True)
MBExecuteAction(m, a) ==
    LET actions == Append(m.mock_actions, a)
        cur == m.current_url
        url == CASE a.type = "navigate" ->
                      IF a.url = <<>> THEN GoogleHome ELSE a.url[1]
                 [] a.type = "click" -> ClickUrl(cur, actions, a.x, a.y)
                 [] a.type = "type" ->
                      IF /\ m.last_click_y # NoClick
                         /\ m.last_click_y < 50
                         /\ (StartsWithHttp(a.text) \/ HasDot(a.text))
                      THEN TypedUrl(a.text)
                      ELSE cur
                 [] a.type = "press" ->
                      IF Lower(a.key) = "enter" THEN EnterUrl(cur, actions) ELSE cur
                 [] OTHER -> cur
    IN  [m EXCEPT !.mock_actions = actions,
                  !.current_url = url,
                  !.last_click_y = IF a.type = "click" THEN a.y ELSE @]

\* MockBrowser.get_current_url: the URL it leaves in self.current_url, which
\* it returns
MBGetCurrentUrl(m) ==
    IF /\ m.mock_actions # <<>>
       /\ m.mock_actions[Len(m.mock_actions)].type = "type"
       /\ StartsWithHttp(m.mock_actions[Len(m.mock_actions)].text)
    THEN m.mock_actions[Len(m.mock_actions)].text
    ELSE m.current_url

\* a call of the client on the object: the fields after it, with the call
Call(m, op) == [m EXCEPT !.op = op, !.ncalls = @ + 1, !.before = m.current_url]

MockExecuteAction(a) ==
    /\ mb.ncalls < MaxMockCalls
    /\ mb' = MBExecuteAction(Call(mb, "execute_action"), a)
    /\ UNCHANGED notMock

MockGetCurrentUrl ==
    /\ mb.ncalls < MaxMockCalls
    /\ mb' = [Call(mb, "get_current_url") EXCEPT !.current_url = MBGetCurrentUrl(mb),
                                                 !.ret = MBGetCurrentUrl(mb)]
    /\ UNCHANGED notMock

\* MockBrowser.take_screenshot: the URL drawn in the address bar
MockDrawScreenshot ==
    /\ mb.ncalls < MaxMockCalls
    /\ mb' = [Call(mb, "take_screenshot") EXCEPT !.drawn = mb.current_url]
    /\ UNCHANGED notMock

\* no client of a MockBrowser of its own
MockIdle == mb = MBNew

(***************************************************************************)
(* process_autonomous_navigation                                           *)
(***************************************************************************)
max_rounds == 15

\* The items of response.output the loop distinguishes.  A "reasoning" item
\* carries one summary_text.
ItemTypes == {"reasoning", "computer_call", "output_text"}
RECURSIVE SeqsUpTo(_)
SeqsUpTo(n) ==
    IF n = 0 THEN {<<>>}
    ELSE LET shorter == SeqsUpTo(n - 1)
         IN  shorter \cup {Append(r, t) : r \in {x \in shorter : Len(x) = n - 1},
                                          t \in ItemTypes}
Responses == SeqsUpTo(MaxItems)

HasCall(r) == \E i \in 1..Len(r) : r[i] = "computer_call"
CountOf(r, t) == Cardinality({i \in 1..Len(r) : r[i] = t})

\* client.responses.create returns a response ("ok") or raises
ModelOutcomes == {"ok", "raise"}

\* what a driver the caller passed may do: it is any object with the methods
CallerOutcomes(values) == values \cup {"raise"}

\* browser.take_screenshot() on the driver in use
TakeScreenshotOutcomes ==
    CASE browser = "virtual" -> {VBTakeScreenshot(vb, c) : c \in PrimOutcomes}
      [] browser = "mock"    -> {MockTakeScreenshot(c) : c \in PrimOutcomes}
      [] OTHER               -> CallerOutcomes({"png", "None"})

\* browser.execute_action(action) on the driver in use
ExecuteActionOutcomes ==
    CASE browser = "virtual" ->
             {VBExecuteAction(vb, t, p) : t \in ActionTypes, p \in PrimOutcomes}
      [] browser = "mock"    -> {MockExecuteActionResult(p) : p \in PrimOutcomes}
      [] OTHER               -> CallerOutcomes({"True", "False"})

NoNotes == [step |-> 0, errExec |-> 0, errShot |-> 0, result |-> 0]
NoResult == [kind |-> "none", notes |-> NoNotes, limit |-> FALSE, path |-> "none"]
NoCalls == [model |-> 0, execute_action |-> 0, take_screenshot |-> 0, on |-> {}]
\* no request sent to the model yet; the responses are numbered by the calls
\* of the model, from 1, and a call id names the response its call is part of
NoRequest == [text |-> "none", image |-> "none", call_id |-> 0,
              previous_response_id |-> 0]
NoHist == [execFailed |-> FALSE, shotFailed |-> FALSE, examinedNoCall |-> FALSE,
           model_request |-> NoRequest, raised |-> FALSE]

\* the arguments of the first client.responses.create: the instructions and
\* screenshot_base64
FirstRequest(c) ==
    [text |-> "instructions", image |-> "screenshot_base64", call_id |-> 0,
     previous_response_id |-> 0]

\* a follow-up request that answers the call of the first response
FollowUpRequestFirstCallId(c) ==
    [text |-> "continue_instructions", image |-> "new_screenshot_base64",
     call_id |-> 1, previous_response_id |-> 0]

\* the arguments of the follow-up client.responses.create: "Continua con la
\* tarea: " + instructions and computer_call_output with item.call_id, item
\* being an item of the response held (the latest one), and
\* new_screenshot_base64; no previous_response_id
FollowUpRequest(c) ==
    [text |-> "continue_instructions", image |-> "new_screenshot_base64",
     call_id |-> c.model, previous_response_id |-> 0]

\* The "Paso n" notes are counted up to MaxStepNotes ("that many or more");
\* the error and result notes are counted exactly.
AddSteps(n, k) == IF n + k < MaxStepNotes THEN n + k ELSE MaxStepNotes

Called(c, op, outcome) ==
    IF op = "model" THEN [c EXCEPT !.model = @ + 1]
    ELSE LET c1 == [c EXCEPT !.on = @ \cup {<<browser, op>>}]
         IN  IF op = "execute_action" THEN [c1 EXCEPT !.execute_action = @ + 1]
             ELSE IF op = "take_screenshot" THEN [c1 EXCEPT !.take_screenshot = @ + 1]
             ELSE c1

\* A VirtualBrowser whose start failed is replaced by a MockBrowser: nothing
\* refers to the object any more, only the handles it left open remain.
Dropped(b) == [VBNew EXCEPT !.live = b.live]

\* `if not browser or not browser.is_running`, then the creation of a driver
SelectBrowser ==
    /\ pc = "entry"
    /\ IF browserArg = "running"
       THEN /\ pc' = "first_screenshot"
            /\ UNCHANGED <<browser, created_browser, vb, mock_running, calls, result>>
       ELSE \E failAt \in 0..StartSteps :
              LET r == VBStart(VBNew, TRUE, failAt)
                  real == PLAYWRIGHT_AVAILABLE /\ r[2] = "True"
              IN  /\ vb' = IF real THEN r[1]
                            ELSE IF PLAYWRIGHT_AVAILABLE THEN Dropped(r[1])
                            ELSE vb
                  /\ calls' = [calls EXCEPT !.on = @ \cup
                                  (IF PLAYWRIGHT_AVAILABLE THEN {<<"virtual", "start">>} ELSE {})
                                  \cup (IF real THEN {} ELSE {<<"mock", "start">>})]
                  /\ browser' = IF real THEN "virtual" ELSE "mock"
                  /\ mock_running' = ~real
                  /\ IF real \/ MockStart = "True"
                     THEN /\ created_browser' = TRUE
                          /\ pc' = "first_screenshot"
                          /\ UNCHANGED result
                     ELSE /\ result' = [NoResult EXCEPT !.kind = "no_start"]
                          /\ pc' = "done"
                          /\ UNCHANGED created_browser
    /\ UNCHANGED <<PLAYWRIGHT_AVAILABLE, browserArg, caller_running, screenshot_path,
                   response, item, has_action, current_round, actions_summary, hist,
                   notNav>>

\* the first browser.take_screenshot() and its `if not screenshot_base64`
FirstScreenshot ==
    /\ pc = "first_screenshot"
    /\ \E o \in TakeScreenshotOutcomes :
          /\ calls' = Called(calls, "take_screenshot", o)
          /\ IF o = "raise"
             THEN /\ pc' = "except"
                  /\ hist' = [hist EXCEPT !.raised = TRUE]
                  /\ UNCHANGED <<result, screenshot_path>>
             ELSE IF o = "None"
             THEN /\ result' = [NoResult EXCEPT !.kind = "no_screenshot"]
                  /\ pc' = "finally"
                  /\ UNCHANGED <<screenshot_path, hist>>
             ELSE /\ screenshot_path' = "file"
                  /\ pc' = "first_call"
                  /\ UNCHANGED <<result, hist>>
    /\ UNCHANGED <<PLAYWRIGHT_AVAILABLE, vb, browserArg, browser, created_browser,
                   mock_running, caller_running, response, item, has_action,
                   current_round, actions_summary, notNav>>

\* the first client.responses.create, then the initialisation of the loop
FirstModelCall ==
    /\ pc = "first_call"
    /\ calls' = Called(calls, "model", "ok")
    /\ \E o \in ModelOutcomes :
          IF o = "raise"
          THEN /\ pc' = "except"
               /\ hist' = [hist EXCEPT !.model_request = FirstRequest(calls),
                                       !.raised = TRUE]
               /\ UNCHANGED <<response, actions_summary, current_round>>
          ELSE \E r \in Responses :
               /\ hist' = [hist EXCEPT !.model_request = FirstRequest(calls)]
               /\ response' = r
               /\ actions_summary' = NoNotes
               /\ current_round' = 0
               /\ pc' = "while"
    /\ UNCHANGED <<PLAYWRIGHT_AVAILABLE, vb, browserArg, browser, created_browser,
                   mock_running, caller_running, screenshot_path, item, has_action,
                   result, notNav>>

\* a loop test that lets one round too many through
LoopTestOffByOne(round) == round <= max_rounds

\* `while current_round < max_rounds`
LoopTest(round) == round < max_rounds

\* the while test, `current_round += 1` and `has_action = False`
WhileHead ==
    /\ pc = "while"
    /\ IF LoopTest(current_round)
       THEN /\ current_round' = current_round + 1
            /\ has_action' = FALSE
            /\ item' = 1
            /\ hist' = [hist EXCEPT !.examinedNoCall = ~HasCall(response)]
            /\ pc' = "for"
       ELSE /\ pc' = "summary"
            /\ UNCHANGED <<current_round, has_action, item, hist>>
    /\ UNCHANGED <<PLAYWRIGHT_AVAILABLE, vb, browserArg, browser, created_browser,
                   mock_running, caller_running, screenshot_path, response,
                   actions_summary, result, calls, notNav>>

\* the index of the first computer_call of r, Len(r) + 1 when it has none
FirstCall(r) ==
    IF HasCall(r)
    THEN CHOOSE i \in 1..Len(r) :
            /\ r[i] = "computer_call"
            /\ \A j \in 1..(i - 1) : r[j] # "computer_call"
    ELSE Len(r) + 1

\* the reasoning items of r before index k: one "Paso n" note each
StepsBefore(r, k) == Cardinality({i \in 1..(k - 1) : r[i] = "reasoning"})

\* `for item in response.output`, up to the call of execute_action for the
\* first computer_call, or to the end of the list when there is none
ForItem ==
    /\ pc = "for"
    /\ item' = FirstCall(response)
    /\ actions_summary' =
          [actions_summary EXCEPT !.step = AddSteps(@, StepsBefore(response, item'))]
    /\ IF item' <= Len(response)
       THEN has_action' = TRUE /\ pc' = "execute"
       ELSE pc' = "after_for" /\ UNCHANGED has_action
    /\ UNCHANGED <<PLAYWRIGHT_AVAILABLE, vb, browserArg, browser, created_browser,
                   mock_running, caller_running, screenshot_path, response,
                   current_round, result, calls, hist, notNav>>

\* browser.execute_action(action) and its `if not success`; the `break`
\* leaves the for-loop only
ExecuteAction ==
    /\ pc = "execute"
    /\ \E o \in ExecuteActionOutcomes :
          /\ calls' = Called(calls, "execute_action", o)
          /\ IF o = "raise"
             THEN /\ pc' = "except"
                  /\ hist' = [hist EXCEPT !.raised = TRUE]
                  /\ UNCHANGED actions_summary
             ELSE IF o = "False"
             THEN /\ actions_summary' = [actions_summary EXCEPT !.errExec = @ + 1]
                  /\ hist' = [hist EXCEPT !.execFailed = TRUE]
                  /\ pc' = "after_for"
             ELSE /\ pc' = "screenshot"
                  /\ UNCHANGED <<actions_summary, hist>>
    /\ UNCHANGED <<PLAYWRIGHT_AVAILABLE, vb, browserArg, browser, created_browser,
                   mock_running, caller_running, screenshot_path, response, item,
                   has_action, current_round, result, notNav>>

\* browser.take_screenshot() after the action and its `if not new_screenshot_base64`.
\* With a screenshot the follow-up call is next: of the response held, only
\* the item whose call_id the request carries is read again.
TakeScreenshot ==
    /\ pc = "screenshot"
    /\ \E o \in TakeScreenshotOutcomes :
          /\ calls' = Called(calls, "take_screenshot", o)
          /\ IF o = "raise"
             THEN /\ pc' = "except"
                  /\ hist' = [hist EXCEPT !.raised = TRUE]
                  /\ UNCHANGED <<actions_summary, screenshot_path, response, item>>
             ELSE IF o = "None"
             THEN /\ actions_summary' = [actions_summary EXCEPT !.errShot = @ + 1]
                  /\ hist' = [hist EXCEPT !.shotFailed = TRUE]
                  /\ pc' = "after_for"
                  /\ UNCHANGED <<screenshot_path, response, item>>
             ELSE /\ screenshot_path' = "file"
                  /\ response' = <<response[item]>>
                  /\ item' = 1
                  /\ pc' = "call"
                  /\ UNCHANGED <<actions_summary, hist>>
    /\ UNCHANGED <<PLAYWRIGHT_AVAILABLE, vb, browserArg, browser, created_browser,
                   mock_running, caller_running, has_action, current_round, result,
                   notNav>>

\* the follow-up client.responses.create and the `break` after it: the loop
\* over the earlier response.output is over, its index points at nothing
ModelCall ==
    /\ pc = "call"
    /\ calls' = Called(calls, "model", "ok")
    /\ \E o \in ModelOutcomes :
          IF o = "raise"
          THEN /\ pc' = "except"
               /\ hist' = [hist EXCEPT !.model_request = FollowUpRequest(calls),
                                       !.raised = TRUE]
               /\ UNCHANGED <<response, item>>
          ELSE \E r \in Responses :
               /\ hist' = [hist EXCEPT !.model_request = FollowUpRequest(calls)]
               /\ response' = r
               /\ item' = 0
               /\ pc' = "after_for"
    /\ UNCHANGED <<PLAYWRIGHT_AVAILABLE, vb, browserArg, browser, created_browser,
                   mock_running, caller_running, screenshot_path, has_action,
                   current_round, actions_summary, result, notNav>>

\* AfterFor without the `break` of the no-action branch
AfterForNoBreak ==
    /\ pc = "after_for"
    /\ actions_summary' =
          IF ~has_action
          THEN [actions_summary EXCEPT !.result = @ + CountOf(response, "output_text")]
          ELSE actions_summary
    /\ pc' = "while"
    /\ UNCHANGED <<PLAYWRIGHT_AVAILABLE, vb, browserArg, browser, created_browser,
                   mock_running, caller_running, screenshot_path, response, item,
                   has_action, current_round, result, calls, hist, notNav>>

\* `if not has_action`: the result lines and the `break` out of the while
AfterFor ==
    /\ pc = "after_for"
    /\ IF ~has_action
       THEN /\ actions_summary' = [actions_summary EXCEPT
                                      !.result = @ + CountOf(response, "output_text")]
            /\ pc' = "summary"
       ELSE /\ pc' = "while"
            /\ UNCHANGED actions_summary
    /\ UNCHANGED <<PLAYWRIGHT_AVAILABLE, vb, browserArg, browser, created_browser,
                   mock_running, caller_running, screenshot_path, response, item,
                   has_action, current_round, result, calls, hist, notNav>>

\* a limit test that misses the last round
LimitNoteDueStrict(round) == round > max_rounds

\* `if current_round >= max_rounds`
LimitNoteDue(round) == round >= max_rounds

\* the final summary, the limit note and the return of the try block
Summary ==
    /\ pc = "summary"
    /\ result' = [kind |-> "summary", notes |-> actions_summary,
                  limit |-> LimitNoteDue(current_round), path |-> screenshot_path]
    /\ pc' = "finally"
    /\ UNCHANGED <<PLAYWRIGHT_AVAILABLE, vb, browserArg, browser, created_browser,
                   mock_running, caller_running, screenshot_path, response, item,
                   has_action, current_round, actions_summary, calls, hist, notNav>>

\* an error result that hands back what the run had gathered
ErrorResultKeepsNotes(notes, path) ==
    [kind |-> "error", notes |-> notes, limit |-> FALSE, path |-> path]

\* `return instructions, f"Error durante la navegacion autonoma: {str(e)}", None`
\* of a run that had gathered the notes and the screenshot path given
ErrorResult(notes, path) ==
    [kind |-> "error", notes |-> NoNotes, limit |-> FALSE, path |-> "none"]

\* `except Exception as e`: the error result.  The try block is left for
\* good: its locals response, item and has_action are read no more.
Except ==
    /\ pc = "except"
    /\ result' = ErrorResult(actions_summary, screenshot_path)
    /\ response' = <<>>
    /\ item' = 0
    /\ has_action' = FALSE
    /\ pc' = "finally"
    /\ UNCHANGED <<PLAYWRIGHT_AVAILABLE, vb, browserArg, browser, created_browser,
                   mock_running, caller_running, screenshot_path, current_round,
                   actions_summary, calls, hist, notNav>>

\* a finally block that tears the driver down whoever made it
CleanupAlways == browser # "none"

\* a finally block without the teardown
CleanupNever == FALSE

\* `if created_browser and browser`
CleanupDue == created_browser /\ browser # "none"

\* the finally block, then the function returns
Finally ==
    /\ pc = "finally"
    /\ IF CleanupDue
       THEN /\ calls' = Called(calls, "cleanup", "None")
            /\ vb' = IF browser = "virtual" THEN VBCleanup(vb) ELSE vb
            /\ mock_running' = IF browser = "mock" THEN FALSE ELSE mock_running
            /\ caller_running' = IF browser = "caller" THEN FALSE ELSE caller_running
       ELSE UNCHANGED <<calls, vb, mock_running, caller_running>>
    /\ pc' = "done"
    /\ UNCHANGED <<PLAYWRIGHT_AVAILABLE, browserArg, browser, created_browser,
                   screenshot_path, response, item, has_action, current_round,
                   actions_summary, result, hist, notNav>>

\* no speech request: the state of the request's variables in the
\* specifications that do not run one
NoProcessed == [kind |-> "none", transcript |-> "none", response |-> "none"]
NoHttp == [status |-> 0, json |-> FALSE, transcript |-> "none", response |-> "none"]
NoSpeechCalls == [transcribe |-> 0, model |-> 0, tts |-> 0]
NoSpeechHist == [transcribeFailed |-> FALSE, primaryRaised |-> FALSE, secondary |-> 0,
                 primary |-> "none"]
SpeechIdle ==
    /\ spc = "idle"
    /\ request = [input |-> "none", agent_type |-> "default",
                  vector_store_id |-> "None", api_key |-> TRUE]
    /\ transcript = "undefined"
    /\ processed = NoProcessed
    /\ http = NoHttp
    /\ scalls = NoSpeechCalls
    /\ shist = NoSpeechHist

\* no call of text_to_speech
NoTtsReturn == [by |-> "none", path |-> "none", says |-> "none"]
TtsIdle ==
    /\ tpc = "idle"
    /\ tin = [text |-> "text", key |-> FALSE, cloud |-> FALSE]
    /\ ttext = "none"
    /\ tried = <<>>
    /\ tret = NoTtsReturn
    /\ error_file = FALSE

\* the upload requests, each with the file it uploads
Uploads == 1..MaxUploads
\* no vector store id: None in the code; the stores are numbered from 1
NoId == 0
\* an upload that raised
Raised == -1
NoUpload == [pc |-> "idle", misread |-> FALSE, vector_store_id |-> NoId,
             created |-> FALSE, ret |-> NoId]
NoBatch == [store |-> NoId, status |-> "none"]
NoListing == [kind |-> "none", seen |-> <<>>, retrievable |-> {}, files |-> <<>>]
\* a deployment that has served nothing yet: no id file, no store
RoutesStart ==
    /\ id_file = NoId
    /\ nstores = 0
    /\ batch = [u \in Uploads |-> NoBatch]
    /\ up = [u \in Uploads |-> NoUpload]
    /\ id_writes = <<>>
    /\ overlapped = FALSE
    /\ listing = NoListing
    /\ agents_http = [status |-> 0, body |-> <<>>]

\* the two requests of SpecFiles
FileRequests == {1, 2}
\* no request writes a temporary file
FilesIdle ==
    /\ clock = 0
    /\ next_uuid = 0
    /\ freq = [r \in FileRequests |-> [kind |-> "none", files |-> 0]]
    /\ written = {}

NavInit ==
    /\ PLAYWRIGHT_AVAILABLE \in BOOLEAN
    /\ browserArg \in {"none", "running", "stopped"}
    /\ vb = VBNew
    /\ pc = "entry"
    /\ browser = IF browserArg = "none" THEN "none" ELSE "caller"
    /\ created_browser = FALSE
    /\ mock_running = FALSE
    /\ caller_running = (browserArg = "running")
    /\ screenshot_path = "none"
    /\ response = <<>>
    /\ item = 0
    /\ has_action = FALSE
    /\ current_round = 0
    /\ actions_summary = NoNotes
    /\ result = NoResult
    /\ calls = NoCalls
    /\ hist = NoHist

NavNext ==
    \/ SelectBrowser
    \/ FirstScreenshot
    \/ FirstModelCall
    \/ WhileHead
    \/ ForItem
    \/ ExecuteAction
    \/ TakeScreenshot
    \/ ModelCall
    \/ AfterFor
    \/ Summary
    \/ Except
    \/ Finally

vars == <<PLAYWRIGHT_AVAILABLE, vb, drv, drvCalls, pc, browserArg, browser,
          created_browser, mock_running, caller_running, screenshot_path,
          response, item, has_action, current_round, actions_summary, result,
          calls, hist, spc, request, transcript, processed, http, scalls, shist,
          tpc, tin, ttext, tried, tret, error_file, mb,
          id_file, nstores, batch, up, id_writes, overlapped, listing, agents_http,
          clock, next_uuid, freq, written>>

Init ==
    /\ NavInit
    /\ drv = NoCall
    /\ drvCalls = 0
    /\ SpeechIdle
    /\ TtsIdle
    /\ RoutesStart
    /\ FilesIdle
    /\ MockIdle
Next == NavNext
Spec == Init /\ [][Next]_vars

\* the navigation function idle, for the specifications that do not run it
NavIdle ==
    /\ pc = "idle"
    /\ browserArg = "none"
    /\ browser = "none"
    /\ created_browser = FALSE
    /\ mock_running = FALSE
    /\ caller_running = FALSE
    /\ screenshot_path = "none"
    /\ response = <<>>
    /\ item = 0
    /\ has_action = FALSE
    /\ current_round = 0
    /\ actions_summary = NoNotes
    /\ result = NoResult
    /\ calls = NoCalls
    /\ hist = NoHist

DriverInit ==
    /\ PLAYWRIGHT_AVAILABLE \in BOOLEAN
    /\ vb = VBNew
    /\ drv = NoCall
    /\ drvCalls = 0
    /\ NavIdle
    /\ SpeechIdle
    /\ TtsIdle
    /\ RoutesStart
    /\ FilesIdle
    /\ MockIdle

DriverNext ==
    \/ DrvStart
    \/ DrvTakeScreenshot
    \/ DrvExecuteAction
    \/ DrvCleanup

SpecDriver == DriverInit /\ [][DriverNext]_vars

(***************************************************************************)
(* Properties of process_autonomous_navigation (specification Spec)        *)
(***************************************************************************)
Returned == pc = "done"

\* C1: in one invocation, whatever the model and the driver do, execute_action
\* is called at most 15 times and the model at most 16 times.
C1_BoundedCalls ==
    /\ calls.execute_action <= 15
    /\ calls.model <= 16
    /\ calls.model <= calls.execute_action + 1

C1_Witness ==
    /\ Returned
    /\ calls.execute_action = 15
    /\ calls.model = 16
    /\ actions_summary.errExec = 0

\* every response held a requested action and every driver call succeeded
AlwaysActionAllSucceed ==
    /\ result.kind = "summary"
    /\ ~hist.examinedNoCall
    /\ HasCall(response)
    /\ ~hist.execFailed
    /\ ~hist.shotFailed

\* C2: when every model response requests an action and every execute_action
\* and take_screenshot succeeds, the function returns after exactly 15 rounds
\* and 15 executed actions, and the summary ends with the limit note.
C2_LimitReached ==
    (Returned /\ AlwaysActionAllSucceed) =>
        /\ current_round = 15
        /\ calls.execute_action = 15
        /\ calls.model = 16
        /\ result.limit

C2_Witness ==
    /\ Returned
    /\ AlwaysActionAllSucceed
    /\ result.limit
    /\ browser = "mock"

\* C3, as claimed: once execute_action has returned false in a round the loop
\* is over with one error note: no execute_action, no take_screenshot and no
\* model call follows.
C3_ExecFailureEndsLoop ==
    [][hist.execFailed =>
          /\ calls'.execute_action = calls.execute_action
          /\ calls'.take_screenshot = calls.take_screenshot
          /\ calls'.model = calls.model
          /\ actions_summary'.errExec = 1]_vars

\* C4: when the response examined in a round holds no computer_call, the loop
\* ends in that round: no action, no screenshot and no model call follows, the
\* round counter stays, and the summary returned holds one result line per
\* output_text item of that response.
C4_NoActionEndsLoop ==
    /\ [][hist.examinedNoCall =>
             /\ calls'.execute_action = calls.execute_action
             /\ calls'.take_screenshot = calls.take_screenshot
             /\ calls'.model = calls.model
             /\ current_round' = current_round
             /\ response' = response]_vars
    /\ []((Returned /\ hist.examinedNoCall) =>
             /\ result.kind = "summary"
             /\ result.notes.result = CountOf(response, "output_text"))

C4_Witness ==
    /\ Returned
    /\ hist.examinedNoCall
    /\ current_round = 3
    /\ CountOf(response, "output_text") = 2
    /\ result.notes.result = 2

DriverRunning(d) ==
    CASE d = "virtual" -> vb.is_running
      [] d = "mock"    -> mock_running
      [] d = "caller"  -> caller_running
      [] OTHER         -> FALSE

C6_CallerDriverKept ==
    (browserArg = "running") =>
        /\ browser = "caller"
        /\ ~created_browser
        /\ calls.on \subseteq {<<"caller", "take_screenshot">>, <<"caller", "execute_action">>}
        /\ caller_running

C6_Witness ==
    /\ Returned
    /\ browserArg = "running"
    /\ result.kind = "error"
    /\ calls.execute_action = 2
    /\ <<"caller", "execute_action">> \in calls.on

\* C7: with no running driver passed, the real driver is tried first when the
\* engine is available; when its start fails or the engine is missing the
\* simulated driver is used, and its start succeeds.  The function never
\* returns the 'could not start' result and always attempts the first
\* screenshot.
C7_DriverSelection ==
    /\ result.kind # "no_start"
    /\ (Returned => calls.take_screenshot >= 1)
    /\ (pc # "entry" /\ browserArg # "running") =>
          /\ created_browser
          /\ browser \in {"virtual", "mock"}
          /\ PLAYWRIGHT_AVAILABLE => <<"virtual", "start">> \in calls.on
          /\ ~PLAYWRIGHT_AVAILABLE => <<"virtual", "start">> \notin calls.on
          /\ (browser = "mock") <=> (<<"mock", "start">> \in calls.on)
          /\ (browser = "virtual") => PLAYWRIGHT_AVAILABLE

\* the fallback: the engine is there, the real driver did not start
C7_Witness ==
    /\ Returned
    /\ PLAYWRIGHT_AVAILABLE
    /\ browserArg = "stopped"
    /\ browser = "mock"
    /\ <<"virtual", "start">> \in calls.on
    /\ calls.take_screenshot >= 1

AgentTypes == {"default", "web_search", "computer_use", "file_search"}

\* What client.chat.completions.create can do: return a message with text
\* ("content"), return a message whose content is None or empty ("empty"),
\* return no choice at all ("no_choices"), or raise ("raise").
CompletionOutcomes == {"content", "empty", "no_choices", "raise"}

\* how a processor ends: with the pair (transcript, response), or by raising
Pair(t, r) == [kind |-> "pair", transcript |-> t, response |-> r]
\* the exception a processor builds in its except clause
BoundaryError == [kind |-> "boundary_error", transcript |-> "none", response |-> "none"]
\* an exception of the client library (or of a helper) leaving the processor
LibraryError == [kind |-> "library_error", transcript |-> "none", response |-> "none"]

\* not an end: web search goes on to its second strategy
ToFallback == [kind |-> "fallback", transcript |-> "none", response |-> "none"]

\* a processor whose except clause is missing: the exception leaves as it is
OnExceptionUnwrapped(agent, t) == LibraryError

\* The outer `except Exception as e` of the four processors, entered with the
\* local transcript t ("undefined" when the transcription itself raised):
\* web search returns its apology, the others raise a new Exception.
OnException(agent, t) ==
    IF agent = "web_search"
    THEN Pair(IF t = "undefined" THEN "Error de procesamiento" ELSE t, "apology_web_problem")
    ELSE BoundaryError

\* web search with `not response.choices[0].message.content` raising instead
\* of returning the apology: an empty answer would reach the second strategy
OnCompletionEmptyFallsBack(agent, t, o) ==
    CASE o = "content" -> Pair(t, "content")
      [] agent = "web_search" -> ToFallback
      [] o = "raise" -> BoundaryError
      [] OTHER -> Pair(t, "None")

\* What each processor does with the outcome of its (first) model call:
\* a result, or ToFallback for web search's second strategy.
OnCompletion(agent, t, o) ==
    CASE o = "raise" ->
             IF agent = "web_search" THEN ToFallback ELSE OnException(agent, t)
      [] o = "content" -> Pair(t, "content")
      [] o = "empty" ->
             IF agent = "default" THEN Pair(t, "apology_no_answer")
             ELSE IF agent = "web_search" THEN Pair(t, "apology_not_found")
             ELSE Pair(t, "None")
      [] OTHER ->  \* no_choices: `response.choices[0]` raises IndexError
             IF agent = "default" THEN Pair(t, "apology_no_answer")
             ELSE IF agent = "web_search" THEN Pair(t, "apology_not_found")
             ELSE OnException(agent, t)

\* web search's fallback strategy, by the outcome of its model call
OnFallbackCompletion(t, o) ==
    CASE o = "content" -> Pair(t, "content")
      [] o = "empty"   -> Pair(t, "apology_not_found")
      [] OTHER         -> OnException("web_search", t)

\* the request as the route dispatches it: JSON text, an audio file, an audio
\* file with an empty name, or neither
Inputs == {"text", "audio", "audio_no_name", "none"}

\* process_speech up to the call of the processor
Route ==
    /\ spc = "route"
    /\ IF ~request.api_key
       THEN \* create_openai_client raises outside every try: the framework's 500
            /\ http' = [NoHttp EXCEPT !.status = 500]
            /\ spc' = "done"
            /\ UNCHANGED transcript
       ELSE IF request.input = "text"
       THEN spc' = "model" /\ transcript' = "text" /\ UNCHANGED http
       ELSE IF request.input = "audio"
       THEN \E saved \in {"ok", "raise"} :
               IF saved = "ok"
               THEN spc' = "transcribe" /\ UNCHANGED <<http, transcript>>
               ELSE \* save_audio_file raises outside the try
                    /\ http' = [NoHttp EXCEPT !.status = 500]
                    /\ spc' = "done"
                    /\ UNCHANGED transcript
       ELSE /\ http' = [NoHttp EXCEPT !.status = 400, !.json = TRUE]
            /\ spc' = "done"
            /\ UNCHANGED transcript
    /\ UNCHANGED <<request, processed, scalls, shist, notSpeech>>

\* transcribe_audio, called by the processor for audio input
Transcribe ==
    /\ spc = "transcribe"
    /\ scalls' = [scalls EXCEPT !.transcribe = @ + 1]
    /\ \E o \in {"ok", "raise"} :
          IF o = "ok"
          THEN /\ transcript' = "heard"
               /\ spc' = "model"
               /\ UNCHANGED <<processed, shist>>
          ELSE /\ processed' = OnException(request.agent_type, transcript)
               /\ shist' = [shist EXCEPT !.transcribeFailed = TRUE]
               /\ spc' = "returned"
               /\ UNCHANGED transcript
    /\ UNCHANGED <<request, http, notSpeech>>

\* a test for None alone, which lets the empty string through
NoVectorStoreNoneOnly(agent, id) == agent = "file_search" /\ id = "None"

\* `if not vector_store_id` of process_query_with_file_search: None and the
\* empty string are both false
NoVectorStore(agent, id) == agent = "file_search" /\ id \in {"None", ""}

\* the processor's model call; file search first checks the vector store id
ModelQuery ==
    /\ spc = "model"
    /\ IF NoVectorStore(request.agent_type, request.vector_store_id)
       THEN /\ processed' = Pair(transcript, "no_files")
            /\ spc' = "returned"
            /\ UNCHANGED <<scalls, shist>>
       ELSE /\ scalls' = [scalls EXCEPT !.model = @ + 1]
            /\ \E o \in CompletionOutcomes :
                  LET r == OnCompletion(request.agent_type, transcript, o)
                  IN  IF r.kind = "fallback"
                      THEN /\ spc' = "fallback"
                           /\ shist' = [shist EXCEPT !.primaryRaised = TRUE,
                                                     !.primary = o]
                           /\ UNCHANGED processed
                      ELSE /\ processed' = r
                           /\ spc' = "returned"
                           /\ shist' = [shist EXCEPT !.primary = o]
    /\ UNCHANGED <<request, transcript, http, notSpeech>>

\* web search's second model call, made in the inner except clause
FallbackQuery ==
    /\ spc = "fallback"
    /\ scalls' = [scalls EXCEPT !.model = @ + 1]
    /\ shist' = [shist EXCEPT !.secondary = @ + 1]
    /\ \E o \in CompletionOutcomes :
          processed' = OnFallbackCompletion(transcript, o)
    /\ spc' = "returned"
    /\ UNCHANGED <<request, transcript, http, notSpeech>>

\* the route after the processor: its except clause, or detect_language
AfterProcessor ==
    /\ spc = "returned"
    /\ IF processed.kind = "pair"
       THEN \* detect_language: one model call, every exception caught
            /\ scalls' = [scalls EXCEPT !.model = @ + 1]
            /\ spc' = "tts"
            /\ UNCHANGED http
       ELSE /\ http' = [NoHttp EXCEPT !.status = 500, !.json = TRUE]
            /\ spc' = "done"
            /\ UNCHANGED scalls
    /\ UNCHANGED <<request, transcript, processed, shist, notSpeech>>

\* text_to_speech gives a path, or None; os.path.basename(None) raises
\* inside the route's try
Respond ==
    /\ spc = "tts"
    /\ scalls' = [scalls EXCEPT !.tts = @ + 1]
    /\ \E path \in {"file", "None"} :
          http' = IF path = "None"
                  THEN [NoHttp EXCEPT !.status = 500, !.json = TRUE]
                  ELSE [status |-> 200, json |-> TRUE,
                        transcript |-> IF request.input = "text" THEN "text"
                                       ELSE processed.transcript,
                        response |-> processed.response]
    /\ spc' = "done"
    /\ UNCHANGED <<request, transcript, processed, shist, notSpeech>>

(***************************************************************************)
(* models/agents.py and app.py: GET /api/agents                            *)
(***************************************************************************)
\* the keys of the dict built by get_all_agents, in insertion order
AgentOrder == <<"default", "web_search", "computer_use", "file_search">>

\* Agent.to_dict() of the agent of a type
AgentDict(t) ==
    [name |-> CASE t = "default"      -> "INNOVATE AI Assistant"
                [] t = "web_search"   -> "Web Search Agent"
                [] t = "computer_use" -> "Computer Use Agent"
                [] OTHER              -> "File Search Agent",
     type |-> t,
     description |-> t,
     icon |-> CASE t = "web_search"  -> "/static/icons/search-icon.svg"
                [] t = "file_search" -> "/static/icons/file-icon.svg"
                [] OTHER             -> "/static/icons/computer-icon.svg"]

\* get_all_agents: a dict from the type's value to the agent's to_dict()
get_all_agents == [t \in AgentTypes |-> AgentDict(t)]

\* `for agent in agents`: iterating a dict gives its keys, which are strings
IterItems(d) == [i \in 1..Len(AgentOrder) |-> [class |-> "str", value |-> AgentOrder[i]]]

\* `agent.to_dict()`: only an Agent object has the method
HasToDict(x) == x.class = "Agent"

\* the route: a list comprehension outside any try
GetAgents ==
    /\ agents_http.status = 0
    /\ LET agents == IterItems(get_all_agents)
       IN  agents_http' =
              IF \A i \in 1..Len(agents) : HasToDict(agents[i])
              THEN [status |-> 200,
                    body |-> [i \in 1..Len(agents) |-> get_all_agents[agents[i].value]]]
              ELSE \* AttributeError leaves the route: the framework's 500
                   [status |-> 500, body |-> <<>>]
    /\ UNCHANGED <<id_file, nstores, batch, up, id_writes, overlapped, listing,
                   notRoutes>>

SpeechInit ==
    /\ spc = "route"
    /\ request \in [input : Inputs, agent_type : AgentTypes,
                    vector_store_id : {"None", "", "vs_1"}, api_key : BOOLEAN]
    /\ transcript = "undefined"
    /\ processed = NoProcessed
    /\ http = NoHttp
    /\ scalls = NoSpeechCalls
    /\ shist = NoSpeechHist
    /\ PLAYWRIGHT_AVAILABLE = FALSE
    /\ vb = VBNew
    /\ drv = NoCall
    /\ drvCalls = 0
    /\ NavIdle
    /\ TtsIdle
    /\ RoutesStart
    /\ FilesIdle
    /\ MockIdle

SpeechNext ==
    \/ Route
    \/ Transcribe
    \/ ModelQuery
    \/ FallbackQuery
    \/ AfterProcessor
    \/ Respond
    \/ GetAgents

SpecSpeech == SpeechInit /\ [][SpeechNext]_vars

\* C9: each of the four processors, for text and for audio input and whatever
\* the transcription and the model calls do, ends with a (transcript, response)
\* pair or with the one exception it builds itself; no exception of the client
\* library leaves it.
C9_PairOrBoundaryError ==
    /\ processed.kind \in {"none", "pair", "boundary_error"}
    /\ (spc \in {"returned", "tts"}) => processed.kind \in {"pair", "boundary_error"}
    /\ (processed.kind = "pair") =>
          /\ processed.transcript \in {"text", "heard", "Error de procesamiento"}
          /\ processed.response # "none"
    /\ (processed.kind = "boundary_error") => request.agent_type # "web_search"

\* the model call of the computer-use processor raises, for audio input
C9_Witness ==
    /\ spc = "returned"
    /\ request.agent_type = "computer_use"
    /\ request.input = "audio"
    /\ transcript = "heard"
    /\ scalls.model = 1
    /\ processed.kind = "boundary_error"

\* C10, as claimed: for every agent type, an audio request whose transcription
\* fails ends with a 500 JSON error, no model call, and one transcription
\* attempt.
C10_TranscriptionFailureIs500 ==
    (spc = "done" /\ shist.transcribeFailed) =>
        /\ http.status = 500
        /\ http.json
        /\ scalls.model = 0
        /\ scalls.transcribe = 1

\* C11: process_query_with_file_search called with no vector store id (None or
\* the empty string) makes no model call and, once the transcript is there
\* (text input, or audio whose transcription succeeded), returns the pair
\* (transcript, the fixed "no files available" message).
C11_NoStoreNoModelCall ==
    (request.agent_type = "file_search" /\ request.vector_store_id \in {"None", ""}) =>
        /\ shist.primary = "none"
        /\ spc \in {"route", "transcribe", "model", "returned"} => scalls.model = 0
        /\ (spc = "returned" /\ ~shist.transcribeFailed) =>
              /\ transcript \in {"text", "heard"}
              /\ processed = Pair(transcript, "no_files")

\* file search of a transcribed recording with the empty string as store id
C11_Witness ==
    /\ spc = "returned"
    /\ request.agent_type = "file_search"
    /\ request.vector_store_id = ""
    /\ request.input = "audio"
    /\ scalls.transcribe = 1
    /\ processed = Pair("heard", "no_files")

\* C12: in process_query_with_web_search the second (function-calling) model
\* call is made exactly when the first (search-model) call raised, and at most
\* once; a first call that returns, with text, with empty content or with no
\* choice, is never followed by it.  Once the first call was made, the
\* processor returns a pair whose transcript is the local transcript.
C12_FallbackIffPrimaryRaised ==
    (request.agent_type = "web_search") =>
        /\ shist.secondary <= 1
        /\ (spc \in {"returned", "tts", "done"}) =>
              ((shist.secondary = 1) <=> (shist.primary = "raise"))
        /\ (shist.secondary = 1) => shist.primary = "raise"
        /\ (spc = "fallback") => shist.primary = "raise" /\ shist.secondary = 0
        /\ (spc \in {"returned", "tts", "done"} /\ shist.primary # "none") =>
              /\ processed.kind = "pair"
              /\ processed.transcript = transcript
              /\ transcript \in {"text", "heard"}

\* the first call returned empty content: the apology, and no second call
C12_Witness ==
    /\ spc = "returned"
    /\ request.agent_type = "web_search"
    /\ shist.primary = "empty"
    /\ shist.secondary = 0
    /\ scalls.model = 1
    /\ processed = Pair(transcript, "apology_not_found")

(***************************************************************************)
(* speech_service.py: text_to_speech and its providers                     *)
(***************************************************************************)
\* the `text` argument: a text, the empty string, blanks only, or None
TtsTexts == {"text", "", "blank", "None"}

\* `not text or text.strip() == ''`
EmptyText(text) == text \in {"", "blank", "None"}

\* text_to_speech, lines 264-266: the text the providers are given
TtsText(text) == IF EmptyText(text) THEN "apology_response" ELSE text

\* What the two gTTS syntheses of text_to_speech_gtts can do: the first one
\* saves its file ("saved"); it raises and the one of the error message saves
\* its file ("error_saved"); both raise ("raise").
GttsOutcomes == {"saved", "error_saved", "raise"}

\* text_to_speech_gtts(text) by the outcome of its syntheses: the path it
\* returns and what the audio says, or the exception it raises
TextToSpeechGtts(text, o) ==
    CASE o = "saved" ->
             [path |-> "uuid.mp3",
              says |-> IF EmptyText(text) THEN "apology_voice" ELSE text]
      [] o = "error_saved" ->
             [path |-> "error_uuid.mp3", says |-> "apology_convert"]
      [] OTHER -> [path |-> "raise", says |-> "none"]

\* get_google_cloud_tts and get_google_tts_enhanced: a file with the text, or
\* None; both catch every exception of their body
CloudOutcomes(available) == IF available THEN {"uuid.mp3", "None"} ELSE {"None"}

\* the cascade with the REST API consulted whatever the configuration
AfterProviderRestAlways(p, key) ==
    CASE p = "gtts"  -> "cloud"
      [] p = "cloud" -> "rest"
      [] OTHER       -> "static"

\* the order of text_to_speech: what follows a provider that gave no path
AfterProvider(p, key) ==
    CASE p = "gtts"  -> "cloud"
      [] p = "cloud" -> IF key THEN "rest" ELSE "static"
      [] OTHER       -> "static"

Attempt(p, text, ret) == [provider |-> p, text |-> text, ret |-> ret]

\* lines 263-266
TtsEntry ==
    /\ tpc = "entry"
    /\ ttext' = TtsText(tin.text)
    /\ tpc' = "gtts"
    /\ UNCHANGED <<tin, tried, tret, error_file, notTts>>

\* lines 269-275: gTTS first
TtsGtts ==
    /\ tpc = "gtts"
    /\ \E o \in GttsOutcomes :
          LET r == TextToSpeechGtts(ttext, o)
          IN  /\ tried' = Append(tried, Attempt("gtts", ttext, r.path))
              /\ IF r.path = "raise"
                 THEN tpc' = AfterProvider("gtts", tin.key) /\ UNCHANGED tret
                 ELSE /\ tret' = [by |-> "gtts", path |-> r.path, says |-> r.says]
                      /\ tpc' = "done"
    /\ UNCHANGED <<tin, ttext, error_file, notTts>>

\* lines 280-286: the Google Cloud client
TtsCloud ==
    /\ tpc = "cloud"
    /\ \E path \in CloudOutcomes(tin.cloud) :
          /\ tried' = Append(tried, Attempt("cloud", ttext, path))
          /\ IF path = "None"
             THEN tpc' = AfterProvider("cloud", tin.key) /\ UNCHANGED tret
             ELSE /\ tret' = [by |-> "cloud", path |-> path, says |-> ttext]
                  /\ tpc' = "done"
    /\ UNCHANGED <<tin, ttext, error_file, notTts>>

\* lines 289-296: the REST API; get_google_tts_enhanced tests the key again
TtsRest ==
    /\ tpc = "rest"
    /\ \E path \in CloudOutcomes(tin.key) :
          /\ tried' = Append(tried, Attempt("rest", ttext, path))
          /\ IF path = "None"
             THEN tpc' = AfterProvider("rest", tin.key) /\ UNCHANGED tret
             ELSE /\ tret' = [by |-> "rest", path |-> path, says |-> ttext]
                  /\ tpc' = "done"
    /\ UNCHANGED <<tin, ttext, error_file, notTts>>

\* lines 298-312: the static recording, made with gTTS when it is not there
TtsStatic ==
    /\ tpc = "static"
    /\ IF error_file
       THEN /\ tret' = [by |-> "static", path |-> "error_message.mp3",
                        says |-> "apology_synthesis"]
            /\ UNCHANGED error_file
       ELSE \E o \in {"saved", "raise"} :
               IF o = "saved"
               THEN /\ error_file' = TRUE
                    /\ tret' = [by |-> "static", path |-> "error_message.mp3",
                                says |-> "apology_synthesis"]
               ELSE /\ tret' = [by |-> "static", path |-> "None", says |-> "none"]
                    /\ UNCHANGED error_file
    /\ tpc' = "done"
    /\ UNCHANGED <<tin, ttext, tried, notTts>>

TtsInit ==
    /\ tpc = "entry"
    /\ tin \in [text : TtsTexts, key : BOOLEAN, cloud : BOOLEAN]
    /\ ttext = "none"
    /\ tried = <<>>
    /\ tret = NoTtsReturn
    /\ error_file \in BOOLEAN
    /\ PLAYWRIGHT_AVAILABLE = FALSE
    /\ vb = VBNew
    /\ drv = NoCall
    /\ drvCalls = 0
    /\ NavIdle
    /\ SpeechIdle
    /\ RoutesStart
    /\ FilesIdle
    /\ MockIdle

TtsNext ==
    \/ TtsEntry
    \/ TtsGtts
    \/ TtsCloud
    \/ TtsRest
    \/ TtsStatic

SpecTts == TtsInit /\ [][TtsNext]_vars

\* C13, as claimed: whatever the text and whatever the providers do,
\* text_to_speech returns a path that is not None; when every provider failed
\* it is the path of the static recording.
C13_NeverNull ==
    (tpc = "done") =>
        /\ tret.path # "None"
        /\ (tret.by = "static") => tret.path = "error_message.mp3"

\* C14, as claimed: empty, blank or None text is replaced by the apology
\* before the first provider is called, every provider call is given the
\* apology, and the returned path is not None and its audio says the apology.
C14_EmptyTextSpeaksApology ==
    EmptyText(tin.text) =>
        /\ (tpc \notin {"entry", "idle"}) => ttext = "apology_response"
        /\ \A i \in 1..Len(tried) : tried[i].text = "apology_response"
        /\ (tpc = "done") =>
              /\ tret.path # "None"
              /\ tret.says = "apology_response"

\* the providers text_to_speech may consult, in its order
Cascade(key) == IF key THEN <<"gtts", "cloud", "rest">> ELSE <<"gtts", "cloud">>

\* C20: the providers are consulted in the order gTTS, Google Cloud client,
\* REST API, the REST API only with an API key configured; every provider
\* consulted before the last one gave no path; a provider that gives a path
\* ends the call with that path, and the static recording is used only after
\* all of them gave none.
C20_FirstPathWins ==
    /\ Len(tried) <= Len(Cascade(tin.key))
    /\ \A i \in 1..Len(tried) :
          /\ tried[i].provider = Cascade(tin.key)[i]
          /\ (i < Len(tried)) => tried[i].ret \in {"None", "raise"}
          /\ (tried[i].ret \notin {"None", "raise"}) =>
                /\ tpc = "done"
                /\ tret.by = tried[i].provider
                /\ tret.path = tried[i].ret
    /\ (tpc = "done" /\ tret.by = "static") =>
          /\ Len(tried) = Len(Cascade(tin.key))
          /\ \A i \in 1..Len(tried) : tried[i].ret \in {"None", "raise"}
    /\ (tpc = "done") => tret.by \in {"gtts", "cloud", "rest", "static"}

\* gTTS raised, the Google Cloud client gave the path, the REST API was not
\* called although a key is configured
C20_Witness ==
    /\ tpc = "done"
    /\ tin.key
    /\ Len(tried) = 2
    /\ tried[1].ret = "raise"
    /\ tret.by = "cloud"
    /\ tret.path = "uuid.mp3"

(***************************************************************************)
(* tools_service.py: the vector store id file, uploads and the listing     *)
(***************************************************************************)
\* get_stored_vector_store_id: the id in the file; None when there is no
\* file or when reading it raises
GetStoredVectorStoreId(file, read) == IF read = "ok" THEN file ELSE NoId

\* a save that keeps the id already in the file
SaveKeepsFirst(file, id, write) ==
    IF write = "ok" /\ file = NoId THEN id ELSE file

\* save_vector_store_id: open(file_path, 'w') and json.dump replace the
\* file's content; a failure is logged and the file keeps what it had
SaveVectorStoreId(file, id, write) == IF write = "ok" THEN id ELSE file

Running(u) == up[u].pc \notin {"idle", "done"}

\* /api/upload-file up to client.files.create (lines 47-55)
UploadFile(u) ==
    /\ up[u].pc = "idle"
    /\ overlapped' = (overlapped \/ \E v \in Uploads : Running(v))
    /\ \E o \in {"ok", "raise"} :
          up' = IF o = "ok"
                THEN [up EXCEPT ![u].pc = "get"]
                ELSE [up EXCEPT ![u].pc = "done", ![u].ret = Raised]
    /\ UNCHANGED <<id_file, nstores, batch, id_writes, listing, agents_http, notRoutes>>

\* lines 58-60: the read of the id file and `if not vector_store_id`
ReadId(u) ==
    /\ up[u].pc = "get"
    /\ \E read \in {"ok", "fail"} :
          LET id == GetStoredVectorStoreId(id_file, read)
          IN  up' = [up EXCEPT ![u].misread = (id # id_file),
                               ![u].vector_store_id = id,
                               ![u].pc = IF id = NoId THEN "create" ELSE "batch"]
    /\ UNCHANGED <<id_file, nstores, batch, id_writes, overlapped, listing,
                   agents_http, notRoutes>>

\* lines 62-67: client.beta.vector_stores.create
CreateStore(u) ==
    /\ up[u].pc = "create"
    /\ \E o \in {"ok", "raise"} :
          IF o = "ok"
          THEN /\ nstores' = nstores + 1
               /\ up' = [up EXCEPT ![u].vector_store_id = nstores + 1,
                                   ![u].created = TRUE, ![u].pc = "save"]
          ELSE /\ up' = [up EXCEPT ![u].pc = "done", ![u].ret = Raised]
               /\ UNCHANGED nstores
    /\ UNCHANGED <<id_file, batch, id_writes, overlapped, listing, agents_http,
                   notRoutes>>

\* line 70: save_vector_store_id, its result not looked at
SaveId(u) ==
    /\ up[u].pc = "save"
    /\ \E write \in {"ok", "fail"} :
          /\ id_file' = SaveVectorStoreId(id_file, up[u].vector_store_id, write)
          /\ id_writes' = IF write = "ok"
                          THEN Append(id_writes, up[u].vector_store_id)
                          ELSE id_writes
    /\ up' = [up EXCEPT ![u].pc = "batch"]
    /\ UNCHANGED <<nstores, batch, overlapped, listing, agents_http, notRoutes>>

\* lines 73-84: client.beta.vector_stores.file_batches.create and the return
AddBatch(u) ==
    /\ up[u].pc = "batch"
    /\ \E o \in {"ok", "raise"} :
          IF o = "ok"
          THEN /\ batch' = [batch EXCEPT ![u] = [store |-> up[u].vector_store_id,
                                                 status |-> "in_progress"]]
               /\ up' = [up EXCEPT ![u].pc = "done",
                                   ![u].ret = up[u].vector_store_id]
          ELSE /\ up' = [up EXCEPT ![u].pc = "done", ![u].ret = Raised]
               /\ UNCHANGED batch
    /\ UNCHANGED <<id_file, nstores, id_writes, overlapped, listing, agents_http,
                   notRoutes>>

\* the hosted service works on a batch: it completes, fails or is cancelled
BatchStatuses == {"in_progress", "completed", "failed", "cancelled"}
BatchProgress(u) ==
    /\ batch[u].status = "in_progress"
    /\ \E st \in BatchStatuses \ {"in_progress"} :
          batch' = [batch EXCEPT ![u].status = st]
    /\ UNCHANGED <<id_file, nstores, up, id_writes, overlapped, listing,
                   agents_http, notRoutes>>

\* a status test that leaves out the failed batches only
BatchListedUnlessFailed(status) == status # "failed"

\* `if batch.status == 'completed'`
BatchListed(status) == status = "completed"

\* get_available_files, lines 129-155: the loop over batches.data; a file
\* whose client.files.retrieve raises is left out
RECURSIVE GetAvailableFiles(_, _)
GetAvailableFiles(batches, retrievable) ==
    IF batches = <<>> THEN <<>>
    ELSE LET b == Head(batches)
         IN  (IF BatchListed(b.status) /\ b.file \in retrievable
              THEN <<b.file>> ELSE <<>>)
             \o GetAvailableFiles(Tail(batches), retrievable)

\* what client.beta.vector_stores.file_batches.list returns for a store
RECURSIVE BatchesFrom(_, _)
BatchesFrom(u, id) ==
    IF u > MaxUploads THEN <<>>
    ELSE (IF batch[u].store = id
          THEN <<[file |-> u, status |-> batch[u].status]>> ELSE <<>>)
         \o BatchesFrom(u + 1, id)

\* the files client.files.retrieve is called for
CompletedFiles(batches) ==
    {batches[i].file : i \in {j \in 1..Len(batches) : BatchListed(batches[j].status)}}

\* GET /api/files: the id read by the route, then get_available_files; R is
\* the set of files whose client.files.retrieve call returns
ListFiles ==
    /\ \E read \in {"ok", "fail"} :
          LET id == GetStoredVectorStoreId(id_file, read)
          IN  IF id = NoId
              THEN listing' = [NoListing EXCEPT !.kind = "no_store"]
              ELSE \E o \in {"ok", "raise"},
                      R \in SUBSET CompletedFiles(BatchesFrom(1, id)) :
                      IF o = "raise"
                      THEN listing' = [NoListing EXCEPT !.kind = "raised"]
                      ELSE listing' = [kind |-> "ok",
                                       seen |-> BatchesFrom(1, id),
                                       retrievable |-> R,
                                       files |-> GetAvailableFiles(BatchesFrom(1, id), R)]
    /\ UNCHANGED <<id_file, nstores, batch, up, id_writes, overlapped,
                   agents_http, notRoutes>>

RoutesInit ==
    /\ RoutesStart
    /\ PLAYWRIGHT_AVAILABLE = FALSE
    /\ vb = VBNew
    /\ drv = NoCall
    /\ drvCalls = 0
    /\ NavIdle
    /\ SpeechIdle
    /\ TtsIdle
    /\ FilesIdle
    /\ MockIdle

RoutesNext ==
    \/ \E u \in Uploads : UploadFile(u)
    \/ \E u \in Uploads : ReadId(u)
    \/ \E u \in Uploads : CreateStore(u)
    \/ \E u \in Uploads : SaveId(u)
    \/ \E u \in Uploads : AddBatch(u)
    \/ \E u \in Uploads : BatchProgress(u)
    \/ ListFiles

SpecRoutes == RoutesInit /\ [][RoutesNext]_vars

\* an upload that returned its pair (file_id, vector_store_id)
Succeeded(u) == up[u].pc = "done" /\ up[u].ret # Raised

\* C15, as claimed: while no two uploads overlap, at most one vector store is
\* ever created, and every upload that returns gives the id of that store,
\* which is the persisted id.
C15_OneStoreSequentially ==
    ~overlapped =>
        /\ nstores <= 1
        /\ \A u \in Uploads : Succeeded(u) => (up[u].ret = 1 /\ id_file = 1)

\* C16: a store created by an upload is created because that upload read no
\* id; the persisted id is always the one written last; two uploads that both
\* read no id and both returned have made two stores, each holding its own
\* file, and at most one of the two is the persisted one.
C16_RaceMakesOrphan ==
    /\ (id_writes # <<>>) => id_file = id_writes[Len(id_writes)]
    /\ (id_writes = <<>>) => id_file = NoId
    /\ nstores = Cardinality({u \in Uploads : up[u].created})
    /\ \A u \in Uploads :
          (up[u].pc = "batch" /\ ~up[u].created) => up[u].vector_store_id # NoId
    /\ \A u, v \in Uploads :
          (u # v /\ up[u].created /\ up[v].created /\ Succeeded(u) /\ Succeeded(v)) =>
              /\ up[u].ret # up[v].ret
              /\ batch[u].store = up[u].ret
              /\ batch[v].store = up[v].ret
              /\ (up[u].ret # id_file \/ up[v].ret # id_file)

\* both uploads read the file without an id in it, both created a store and
\* wrote its id, no call failed; the store
\* of the first writer holds a file and is no longer the persisted one
C16_Witness ==
    /\ overlapped
    /\ nstores = 2
    /\ Len(id_writes) = 2
    /\ \A u \in {1, 2} : Succeeded(u) /\ up[u].created /\ ~up[u].misread
    /\ \E u \in {1, 2} :
          /\ id_writes[1] = up[u].ret
          /\ batch[u].store = up[u].ret
          /\ id_file # up[u].ret

\* C17: when the listing of the batches succeeds, get_available_files returns
\* exactly the files of the batches whose status is "completed" that
\* client.files.retrieve could fetch, each once: no file of an in-progress,
\* failed or cancelled batch; when there is no store or the listing raises,
\* it returns nothing.
C17_OnlyCompletedBatches ==
    /\ (listing.kind \in {"none", "no_store", "raised"}) => listing.files = <<>>
    /\ (listing.kind = "ok") =>
          /\ \A i \in 1..Len(listing.files) :
                \E j \in 1..Len(listing.seen) :
                   /\ listing.seen[j].file = listing.files[i]
                   /\ listing.seen[j].status = "completed"
          /\ \A j \in 1..Len(listing.seen) :
                (listing.seen[j].status = "completed"
                   /\ listing.seen[j].file \in listing.retrievable) =>
                      \E i \in 1..Len(listing.files) :
                         listing.files[i] = listing.seen[j].file
          /\ \A i, k \in 1..Len(listing.files) :
                (listing.files[i] = listing.files[k]) => i = k

\* a store with a completed batch, whose file is retrieved, and an unfinished one
C17_Witness ==
    /\ listing.kind = "ok"
    /\ Len(listing.seen) = 2
    /\ listing.seen[1].status = "completed"
    /\ listing.seen[2].status = "in_progress"
    /\ listing.retrievable = {1}
    /\ listing.files = <<1>>

\* C19, as claimed: GET /api/agents answers 200 with four agents, one per
\* type, each with its name, type, description and icon.
C19_AgentCatalog ==
    (agents_http.status # 0) =>
        /\ agents_http.status = 200
        /\ Len(agents_http.body) = 4
        /\ {agents_http.body[i].type : i \in 1..Len(agents_http.body)} = AgentTypes
        /\ \A i \in 1..Len(agents_http.body) :
              agents_http.body[i] = AgentDict(agents_http.body[i].type)

(***************************************************************************)
(* The names of the temporary files: browser_service.py take_screenshot,   *)
(* speech_service.py text_to_speech_gtts, utils/audio_utils.py             *)
(***************************************************************************)
\* what a request does: a navigation with the simulated driver, a navigation
\* with the real driver, or a speech request (upload of audio, synthesis)
FileRequestKinds == {"nav_mock", "nav_virtual", "speech"}

\* MockBrowser.take_screenshot, lines 138-141: static/temp is one directory
\* of the deployment
MockScreenshotFile(now) ==
    [dir |-> "static/temp", owner |-> 0, name |-> "screenshot_time", n |-> now]

\* VirtualBrowser.take_screenshot, line 317, in the driver's own temp_dir,
\* which tempfile.mkdtemp() made for it
VirtualScreenshotFile(r, now) ==
    [dir |-> "mkdtemp", owner |-> r, name |-> "screenshot_time", n |-> now]

\* text_to_speech_gtts lines 147-148, save_audio_file lines 25-26: uuid4 is
\* taken to give a value never given before
AudioFile(id) ==
    [dir |-> "uploads/audio", owner |-> 0, name |-> "uuid", n |-> id]

\* time passes
Tick ==
    /\ clock < MaxClock
    /\ clock' = clock + 1
    /\ UNCHANGED <<next_uuid, freq, written, notFiles>>

MockScreenshot(r) ==
    /\ freq[r].kind = "nav_mock"
    /\ freq[r].files < MaxFiles
    /\ written' = written \cup {[path |-> MockScreenshotFile(clock), by |-> r]}
    /\ freq' = [freq EXCEPT ![r].files = @ + 1]
    /\ UNCHANGED <<clock, next_uuid, notFiles>>

VirtualScreenshot(r) ==
    /\ freq[r].kind = "nav_virtual"
    /\ freq[r].files < MaxFiles
    /\ written' = written \cup {[path |-> VirtualScreenshotFile(r, clock), by |-> r]}
    /\ freq' = [freq EXCEPT ![r].files = @ + 1]
    /\ UNCHANGED <<clock, next_uuid, notFiles>>

\* save_audio_file of the request's recording, or the synthesis of its answer
WriteAudio(r) ==
    /\ freq[r].kind = "speech"
    /\ freq[r].files < MaxFiles
    /\ written' = written \cup {[path |-> AudioFile(next_uuid + 1), by |-> r]}
    /\ next_uuid' = next_uuid + 1
    /\ freq' = [freq EXCEPT ![r].files = @ + 1]
    /\ UNCHANGED <<clock, notFiles>>

FilesInit ==
    /\ clock = 0
    /\ next_uuid = 0
    /\ freq \in [FileRequests -> [kind : FileRequestKinds, files : {0}]]
    /\ written = {}
    /\ PLAYWRIGHT_AVAILABLE = FALSE
    /\ vb = VBNew
    /\ drv = NoCall
    /\ drvCalls = 0
    /\ NavIdle
    /\ SpeechIdle
    /\ TtsIdle
    /\ RoutesStart
    /\ MockIdle

FilesNext ==
    \/ Tick
    \/ \E r \in FileRequests : MockScreenshot(r)
    \/ \E r \in FileRequests : VirtualScreenshot(r)
    \/ \E r \in FileRequests : WriteAudio(r)

SpecFiles == FilesInit /\ [][FilesNext]_vars

\* C18, as claimed: no temporary file is written by two requests: not a
\* screenshot by two navigation requests, not an audio file by two speech
\* requests.
C18_NoSharedTempFile ==
    \A a, b \in written : (a.path = b.path) => a.by = b.by

(***************************************************************************)
(* Further properties of the drivers and of the navigation loop            *)
(***************************************************************************)
\* the variants of BrowserAction
BrowserActionVariants == {"click", "type", "press", "scroll", "wait", "navigate"}

\* C21, as claimed: VirtualBrowser.execute_action on a running browser, for
\* each of click, type, press, scroll, wait and navigate, returns True when
\* the browser primitive of the action does not fail.
C21_EveryVariantExecuted ==
    (/\ drv.op = "execute_action"
     /\ drv.before.is_running
     /\ "page" \in drv.before.attrs
     /\ drv.type \in BrowserActionVariants
     /\ drv.prim = "ok") => drv.ret = "True"

\* C22, as claimed: once take_screenshot has returned None after the action
\* of a round, the loop is over with one error note: no model call and no
\* execute_action follows.
C22_ShotFailureEndsLoop ==
    [][hist.shotFailed =>
          /\ calls'.execute_action = calls.execute_action
          /\ calls'.model = calls.model
          /\ actions_summary'.errShot = 1]_vars

\* C23, as claimed: every model request after the first carries the id of the
\* immediately preceding model response.
C23_PreviousResponseId ==
    calls.model > 1 => hist.model_request.previous_response_id = calls.model - 1

\* C23: the first model request carries the task instructions and the initial
\* screenshot; every later one carries the instructions again behind "Continua
\* con la tarea: ", the call id of a computer_call of the immediately
\* preceding model response and new_screenshot_base64, a screenshot taken
\* since the request before it (every screenshot that was returned but the
\* one about to be sent has gone out with a request); no request carries a
\* response id.
C23_Continuity ==
    /\ calls.model = 1 =>
          hist.model_request =
             [text |-> "instructions", image |-> "screenshot_base64",
              call_id |-> 0, previous_response_id |-> 0]
    /\ calls.model > 1 =>
          hist.model_request =
             [text |-> "continue_instructions", image |-> "new_screenshot_base64",
              call_id |-> calls.model - 1, previous_response_id |-> 0]
    /\ pc \in {"first_call", "call"} =>
          calls.take_screenshot - actions_summary.errShot = calls.model + 1
    /\ pc = "call" =>
          item \in 1..Len(response) /\ response[item] = "computer_call"
C23_Witness ==
    /\ calls.model = 3
    /\ hist.model_request.call_id = 2
    /\ hist.model_request.image = "new_screenshot_base64"
    /\ hist.shotFailed

\* C25, as claimed: a run that ends because the response examined in a round
\* holds no computer_call returns a summary without the limit note, in any
\* round from 1 to 15.
C25_NoLimitNoteWhenModelStops ==
    (Returned /\ result.kind = "summary" /\ hist.examinedNoCall) => ~result.limit

MockInit ==
    /\ mb = MBNew
    /\ PLAYWRIGHT_AVAILABLE = FALSE
    /\ vb = VBNew
    /\ drv = NoCall
    /\ drvCalls = 0
    /\ NavIdle
    /\ SpeechIdle
    /\ TtsIdle
    /\ RoutesStart
    /\ FilesIdle

MockNext ==
    \/ \E a \in MockActions : MockExecuteAction(a)
    \/ MockGetCurrentUrl
    \/ MockDrawScreenshot

SpecMock == MockInit /\ [][MockNext]_vars

\* the last call was execute_action with a press of Enter, in any letter case
EnterPressed ==
    /\ mb.op = "execute_action"
    /\ mb.mock_actions[Len(mb.mock_actions)].type = "press"
    /\ mb.mock_actions[Len(mb.mock_actions)].key \in {"Enter", "enter", "ENTER"}
\* the action before the last one is a `type` action
TypedBefore ==
    /\ Len(mb.mock_actions) >= 2
    /\ mb.mock_actions[Len(mb.mock_actions) - 1].type = "type"
TextBefore == mb.mock_actions[Len(mb.mock_actions) - 1].text

\* C24: after type(text) immediately followed by press(Enter), in any letter
\* case, the tracked URL is text when text starts with "http", "https://" and
\* text when it otherwise holds a ".", the Google search URL of text with "+"
\* for each space when neither holds and the URL before the press holds
\* "google.com", and the URL before the press in every other case; a
\* press(Enter) that does not follow a type action leaves the URL as it was.
C24_EnterAfterType ==
    /\ (EnterPressed /\ TypedBefore) =>
          mb.current_url =
             IF Len(TextBefore) >= 1 /\ TextBefore[1] = "http" THEN TextBefore
             ELSE IF \E i \in 1..Len(TextBefore) : TextBefore[i] = "."
             THEN <<"http", "s", "://">> \o TextBefore
             ELSE IF \E i \in 1..(Len(mb.before) - 2) :
                        /\ mb.before[i] = "google"
                        /\ mb.before[i + 1] = "."
                        /\ mb.before[i + 2] = "com"
             THEN <<"http", "s", "://", "www", ".", "google", ".", "com", "/",
                    "search?q=">>
                  \o [i \in 1..Len(TextBefore) |->
                         IF TextBefore[i] = " " THEN "+" ELSE TextBefore[i]]
             ELSE mb.before
    /\ (EnterPressed /\ ~TypedBefore) => mb.current_url = mb.before
    /\ (EnterPressed /\ TypedBefore /\ TextBefore = <<"gatos", " ", "negros">>
          /\ mb.before = GoogleHome) =>
          mb.current_url = <<"http", "s", "://", "www", ".", "google", ".", "com",
                             "/", "search?q=", "gatos", "+", "negros">>

\* a search term entered on a page that is not Google's, after a type action
\* that an earlier press did not follow
C24_Witness ==
    /\ EnterPressed
    /\ TypedBefore
    /\ TextBefore = <<"gatos", " ", "negros">>
    /\ mb.current_url = <<"http", "s", "://", "tienda", ".", "org", "/", "a">>

\* C29, as claimed: get_current_url returns the URL the object tracked when
\* it was called and leaves that URL as it was.
C29_GetCurrentUrlIsARead ==
    mb.op = "get_current_url" =>
        /\ mb.ret = mb.before
        /\ mb.current_url = mb.before

(***************************************************************************)
(* Further properties of text_to_speech, the processors and the uploads    *)
(***************************************************************************)
\* C27, as claimed: when gTTS could not synthesize the text given and a later
\* provider is there, the later provider is tried; the path of a substitute
\* recording, one that does not say the text, is returned only after every
\* later provider that is there was tried and gave no speech of the text.
C27_SubstituteOnlyAfterAll ==
    (tpc = "done" /\ ~EmptyText(tin.text)) =>
        /\ (tried[1].ret = "error_uuid.mp3" /\ tin.cloud) => Len(tried) >= 2
        /\ (tret.path # "None" /\ tret.says # ttext) =>
              /\ tin.cloud => \E i \in 1..Len(tried) :
                                 tried[i].provider = "cloud" /\ tried[i].ret = "None"
              /\ tin.key => \E i \in 1..Len(tried) :
                               tried[i].provider = "rest" /\ tried[i].ret = "None"

\* C28, as claimed: for every agent type, a model call that returns with empty
\* or null content makes the query processor return a fixed apology, never a
\* null or empty response.
C28_EmptyContentIsAnApology ==
    (spc \in {"returned", "tts", "done"} /\ shist.primary = "empty") =>
        /\ processed.kind = "pair"
        /\ processed.response \in {"apology_no_answer", "apology_not_found"}

\* C30, as claimed: when an upload returns its pair, no other upload having
\* run beside it, the persisted vector store id is the id it returns, also
\* when the write of the id file failed.
C30_PersistedIsReturned ==
    [][\A u \in Uploads :
          (up[u].pc # "done" /\ Succeeded(u)' /\ ~overlapped') =>
              id_file' = up'[u].ret]_vars

=============================================================================
